---- MODULE Spec2Model ----
(***************************************************************************)
(* Model of cache-express (src/index.js): the MemoryCache store with its   *)
(* TTL expiry, its expiry timers and its dependency-snapshot invalidation  *)
(* (Spec), the key hash hashString (HashSpec) and the expressCache         *)
(* middleware over the store (MwSpec).                                     *)
(*                                                                         *)
(* Time is the value of Date.now(), counted from the construction of the   *)
(* store.  A timer scheduled by setTimeout(f, ms) may run f at any moment  *)
(* at which at least ms have elapsed since the call (never before), and    *)
(* independently of the store's operations, which run to completion.       *)
(***************************************************************************)
EXTENDS Integers, Sequences, FiniteSets, TLC

\* ------------------------------------------------------------------ bounds
\* The clock stops at MaxTime; a positive timeoutMs is at most MaxTTL; at most
\* MaxTimers calls of setTimeout are made.
MaxTime == 1
MaxTTL == 1
MaxTimers == 1
\* hashString is applied to the strings of at most MaxLen characters.
MaxLen == 5
\* The middleware handles at most MaxRequests requests.
MaxRequests == 3

\* Every operation reads and writes this.cache[key] and this.dependencies[key]
\* of its own key only, so one key is followed.
Keys == {"k1"}
Values == {"v1", "v2"}

\* ------------------------------------------------------- JavaScript values
\* A snapshot argument is undefined or an array; its elements are the
\* JavaScript values 1, null and NaN.
Undefined == [isArray |-> FALSE, elems |-> <<>>]
Arr(s) == [isArray |-> TRUE, elems |-> s]
Snapshots ==
    {Undefined, Arr(<<>>), Arr(<<"null">>), Arr(<<"NaN">>)}

\* `!dependencies`: undefined is falsy, every array (the empty one too) is truthy.
Truthy(d) == d.isArray

\* JSON.stringify of one array element: NaN (like undefined) is written null.
JSONElem(x) == IF x = "NaN" THEN "null" ELSE x

\* JSON.stringify(d): undefined for undefined, else the text of the array,
\* kept as the sequence of its element texts.
Stringify(d) ==
    IF d.isArray
    THEN [text |-> TRUE, toks |-> [i \in 1..Len(d.elems) |-> JSONElem(d.elems[i])]]
    ELSE [text |-> FALSE, toks |-> <<>>]

\* The timeoutMs argument: undefined or a number.
UndefinedMs == [def |-> FALSE, ms |-> 0]
Ms(n) == [def |-> TRUE, ms |-> n]
Timeouts == {UndefinedMs} \cup {Ms(n) : n \in 0..MaxTTL}

\* `timeoutMs && timeoutMs > 0`
PositiveTimeout(t) == t.def /\ t.ms > 0

\* The callback argument: undefined or a function.
NoCallback == "undefined"
Callbacks == {NoCallback, "onExpire"}

Null == "null"
NoExpire == 0
NoTimer == 0

\* ------------------------------------------------------------ hashString
\* A JavaScript number that is an integer, written hi * 2^16 + lo with
\* 0 <= lo < 2^16 (hi carries the sign).
Limb == 65536
Num(hi, lo) == [hi |-> hi + (lo \div Limb), lo |-> lo % Limb]
Zero == Num(0, 0)
Plus(a, b) == Num(a.hi + b.hi, a.lo + b.lo)
Minus(a, b) == Num(a.hi - b.hi, a.lo - b.lo)
Times(n, a) == Num(n * a.hi, n * a.lo)

\* ToInt32: the value modulo 2^32, taken in -2^31 .. 2^31 - 1.
ToInt32(a) ==
    IF a.hi % Limb >= Limb \div 2
    THEN [hi |-> (a.hi % Limb) - Limb, lo |-> a.lo]
    ELSE [hi |-> a.hi % Limb, lo |-> a.lo]

\* `x << 5` and `x | 0`
ShiftLeft5(a) == ToInt32(Times(32, ToInt32(a)))
OrZero(a) == ToInt32(a)

\* str.charCodeAt(i): a UTF-16 code unit.
CharCodes == {0, 97, 65535}
RECURSIVE StringsOf(_)
StringsOf(n) ==
    IF n = 0 THEN {<<>>}
    ELSE StringsOf(n - 1) \cup
         {Append(s, c) : s \in {t \in StringsOf(n - 1) : Len(t) = n - 1}, c \in CharCodes}
Strings == StringsOf(MaxLen)

HashStepNoFoldBug(hash, charCode) ==
    Plus(Minus(ShiftLeft5(hash), hash), Num(0, charCode))

\* `((hash << 5) - hash + charCode) | 0`
HashStep(hash, charCode) ==
    OrZero(Plus(Minus(ShiftLeft5(hash), hash), Num(0, charCode)))

\* `hash + 2147483647 + 1`
HashResult(hash) == Plus(Plus(hash, Num(32767, 65535)), Num(0, 1))

VARIABLES
    now,           \* Date.now()
    cache,         \* this.cache: key -> entry, defined for the keys `in` it
    dependencies,  \* this.dependencies: key -> snapshot
    timers,        \* the pending timers created by setTimeout, by handle
    handles,       \* the number of timers created so far
    calls,         \* the invocations of expiry callbacks made so far
    last,          \* the operation performed last, with its return value
    hist,          \* per key: its most recent set and what happened since, and
                   \* (orphan) the timer of an earlier write that a remove
                   \* left pending, while it is pending
    hashCall,      \* a call of hashString: its argument, locals and result
    options,       \* the options of the middleware made by expressCache(opts)
    requests       \* the requests the middleware has handled, in order

vars ==
    <<now, cache, dependencies, timers, handles, calls, last, hist,
      hashCall, options, requests>>
\* What the operations of the store leave alone.
outside == <<hashCall, options, requests>>

NoOp == [op |-> "new", key |-> "", deps |-> Undefined, ret |-> "undefined"]
NoHist ==
    [written |-> FALSE, value |-> "", deps |-> Undefined, due |-> 0,
     timer |-> NoTimer, stale |-> NoTimer, orphan |-> NoTimer,
     removed |-> FALSE, diffGet |-> FALSE]

\* No call of hashString is made; no middleware is in use.
NoCall == [str |-> <<>>, i |-> 0, hash |-> Zero, pc |-> "idle", ret |-> Zero]
NoOptions == [timeOut |-> UndefinedMs, onTimeout |-> NoCallback]

\* new MemoryCache()
NewCache ==
    /\ now = 0
    /\ cache = <<>>
    /\ dependencies = <<>>
    /\ timers = <<>>
    /\ handles = 0
    /\ calls = {}
    /\ last = NoOp
    /\ hist = [k \in Keys |-> NoHist]

Init ==
    /\ NewCache
    /\ hashCall = NoCall
    /\ options = NoOptions
    /\ requests = <<>>

\* `delete obj[key]`
Delete(obj, key) == [k \in DOMAIN obj \ {key} |-> obj[k]]
\* `obj[key] = x`
Put(obj, key, x) == [k \in DOMAIN obj \cup {key} |-> IF k = key THEN x ELSE obj[k]]

\* clearInterval(handle): a pending timer never runs; otherwise nothing.
ClearTimer(ts, h) == Delete(ts, h)

\* ------------------------------------------------- dependenciesChanged
DepsChanged(key, depArrayValues) ==
    /\ key \in DOMAIN dependencies
    /\ Truthy(dependencies[key])
    /\ Stringify(dependencies[key]) # Stringify(depArrayValues)

DepsAfterCheckRecordsBug(key, depArrayValues) == Put(dependencies, key, depArrayValues)

DepsAfterCheckDropsBug(key, depArrayValues) ==
    IF DepsChanged(key, depArrayValues) THEN Delete(dependencies, key) ELSE dependencies

DepsAfterCheckBug(key, depArrayValues) ==
    IF key \in DOMAIN dependencies /\ Truthy(dependencies[key])
    THEN Put(dependencies, key, depArrayValues)
    ELSE dependencies

\* this.dependencies after dependenciesChanged(key, depArrayValues)
DepsAfterCheck(key, depArrayValues) ==
    IF DepsChanged(key, depArrayValues)
    THEN Put(dependencies, key, depArrayValues)
    ELSE dependencies

\* ---------------------------------------------------------------- get
\* `item && (!item.expireTime || item.expireTime > Date.now())`
Live(key) ==
    /\ key \in DOMAIN cache
    /\ (cache[key].expireTime = NoExpire \/ cache[key].expireTime > now)

GetResult(key, depArrayValues) ==
    IF DepsChanged(key, depArrayValues) THEN Null
    ELSE IF Live(key) THEN cache[key].value
    ELSE Null

GetCacheBug(key, depArrayValues) ==
    IF DepsChanged(key, depArrayValues) THEN Delete(cache, key) ELSE cache

GetCache(key, depArrayValues) ==
    IF DepsChanged(key, depArrayValues) THEN Delete(cache, key)
    ELSE IF Live(key) THEN cache
    ELSE Delete(cache, key)

GetTimers(key, depArrayValues) ==
    IF /\ DepsChanged(key, depArrayValues)
       /\ key \in DOMAIN cache
       /\ cache[key].timer # NoTimer
    THEN ClearTimer(timers, cache[key].timer)
    ELSE timers

Get(key, depArrayValues) ==
    /\ cache' = GetCache(key, depArrayValues)
    /\ dependencies' = DepsAfterCheck(key, depArrayValues)
    /\ timers' = GetTimers(key, depArrayValues)
    /\ last' = [op |-> "get", key |-> key, deps |-> depArrayValues,
                ret |-> GetResult(key, depArrayValues)]
    /\ hist' = [hist EXCEPT ![key].diffGet =
                    @ \/ (hist[key].written /\ depArrayValues # hist[key].deps)]
    /\ UNCHANGED <<now, handles, calls>>

\* ---------------------------------------------------------------- set
SetEntry(value, timeoutMs, callback, deps) ==
    IF PositiveTimeout(timeoutMs)
    THEN [value |-> value, expireTime |-> now + timeoutMs.ms,
          dependencies |-> deps, timeoutMs |-> timeoutMs.ms,
          timer |-> IF callback # NoCallback THEN handles + 1 ELSE NoTimer]
    ELSE [value |-> value, expireTime |-> NoExpire, dependencies |-> deps,
          timeoutMs |-> 0, timer |-> NoTimer]

SetTimers(key, timeoutMs, callback) ==
    IF PositiveTimeout(timeoutMs) /\ callback # NoCallback
    THEN Put(timers, handles + 1,
             [key |-> key, cb |-> callback, fireAt |-> now + timeoutMs.ms])
    ELSE timers

\* this.cache[key] = {...}: the prior entry is replaced; its timer is left alone.
SetCache(key, value, timeoutMs, callback, deps) ==
    Put(cache, key, SetEntry(value, timeoutMs, callback, deps))

\* The timer of the most recent write of key that a remove(key) left pending.
RemovedTimer(key) ==
    IF hist[key].removed /\ hist[key].timer \in DOMAIN timers
    THEN hist[key].timer
    ELSE hist[key].orphan

SetDepsBug(key, deps) ==
    IF key \in DOMAIN dependencies THEN dependencies ELSE Put(dependencies, key, deps)

\* this.dependencies[key] = dependencies
SetDeps(key, deps) == Put(dependencies, key, deps)

Set(key, value, timeoutMs, callback, deps) ==
    /\ (PositiveTimeout(timeoutMs) /\ callback # NoCallback) => handles < MaxTimers
    /\ cache' = SetCache(key, value, timeoutMs, callback, deps)
    /\ timers' = SetTimers(key, timeoutMs, callback)
    /\ handles' = IF PositiveTimeout(timeoutMs) /\ callback # NoCallback
                  THEN handles + 1 ELSE handles
    /\ dependencies' = SetDeps(key, deps)
    /\ last' = [op |-> "set", key |-> key, deps |-> deps, ret |-> "undefined"]
    /\ hist' = [hist EXCEPT ![key] =
                    [written |-> TRUE, value |-> value, deps |-> deps,
                     due |-> SetEntry(value, timeoutMs, callback, deps).expireTime,
                     timer |-> SetEntry(value, timeoutMs, callback, deps).timer,
                     stale |-> IF key \in DOMAIN cache THEN cache[key].timer ELSE NoTimer,
                     orphan |-> RemovedTimer(key),
                     removed |-> FALSE, diffGet |-> FALSE]]
    /\ UNCHANGED <<now, calls>>

\* ------------------------------------------------------------- remove
RemoveCache(key) == Delete(cache, key)

RemoveDepsBug(key) == dependencies

RemoveDeps(key) == Delete(dependencies, key)

Remove(key) ==
    /\ cache' = RemoveCache(key)
    /\ dependencies' = RemoveDeps(key)
    /\ last' = [op |-> "remove", key |-> key, deps |-> Undefined, ret |-> "undefined"]
    /\ hist' = [hist EXCEPT ![key].removed = TRUE]
    /\ UNCHANGED <<now, timers, handles, calls>>

\* ---------------------------------------------------------------- has
HasResultBug(key) ==
    IF /\ key \in DOMAIN cache
       /\ (cache[key].expireTime = NoExpire \/ cache[key].expireTime > now)
    THEN "true" ELSE "false"

\* `key in this.cache`
HasResult(key) == IF key \in DOMAIN cache THEN "true" ELSE "false"

Has(key) ==
    /\ last' = [op |-> "has", key |-> key, deps |-> Undefined, ret |-> HasResult(key)]
    /\ UNCHANGED <<now, cache, dependencies, timers, handles, calls, hist>>

\* ------------------------------------------- the setTimeout callback of set
TimerCache(h) ==
    IF timers[h].key \in DOMAIN cache THEN Delete(cache, timers[h].key) ELSE cache

TimerCallsBug(h) ==
    calls \cup {[timer |-> h, cb |-> timers[h].cb, key |-> timers[h].key,
                 value |-> IF timers[h].key \in DOMAIN cache
                           THEN cache[timers[h].key].value ELSE "undefined"]}

TimerCalls(h) ==
    IF timers[h].key \in DOMAIN cache
    THEN calls \cup {[timer |-> h, cb |-> timers[h].cb, key |-> timers[h].key,
                      value |-> cache[timers[h].key].value]}
    ELSE calls

Fire(h) ==
    /\ now >= timers[h].fireAt
    /\ timers' = Delete(timers, h)
    /\ cache' = TimerCache(h)
    /\ calls' = TimerCalls(h)
    /\ last' = [op |-> "timer", key |-> timers[h].key, deps |-> Undefined,
                ret |-> "undefined"]
    /\ hist' = [hist EXCEPT ![timers[h].key].orphan = IF @ = h THEN NoTimer ELSE @]
    /\ UNCHANGED <<now, dependencies, handles>>

\* ------------------------------------------------------------ the clock
Tick ==
    /\ now < MaxTime
    /\ now' = now + 1
    /\ last' = [op |-> "tick", key |-> "", deps |-> Undefined, ret |-> "undefined"]
    /\ UNCHANGED <<cache, dependencies, timers, handles, calls, hist>>

Next ==
    \/ \E k \in Keys, d \in Snapshots : Get(k, d) /\ UNCHANGED outside
    \/ \E k \in Keys, v \in Values, t \in Timeouts, c \in Callbacks, d \in Snapshots :
           Set(k, v, t, c, d) /\ UNCHANGED outside
    \/ \E k \in Keys : Remove(k) /\ UNCHANGED outside
    \/ \E k \in Keys : Has(k) /\ UNCHANGED outside
    \/ \E h \in DOMAIN timers : Fire(h) /\ UNCHANGED outside
    \/ Tick /\ UNCHANGED outside

Spec == Init /\ [][Next]_vars

\* ------------------------------------------------- hashString, step by step
store == <<now, cache, dependencies, timers, handles, calls, last, hist>>

\* hashString(str) is called: `let hash = 0`, `let i = 0`
HashInit ==
    /\ NewCache
    /\ options = NoOptions
    /\ requests = <<>>
    /\ hashCall \in {[str |-> s, i |-> 0, hash |-> Zero, pc |-> "loop", ret |-> Zero] :
                        s \in Strings}

\* One turn of the loop: `i < str.length`, the body, `i++`
HashLoop ==
    /\ hashCall.pc = "loop"
    /\ hashCall.i < Len(hashCall.str)
    /\ hashCall' = [hashCall EXCEPT
                        !.hash = HashStep(@, hashCall.str[hashCall.i + 1]),
                        !.i = @ + 1]
    /\ UNCHANGED <<store, options, requests>>

\* The loop ends and the function returns.
HashReturn ==
    /\ hashCall.pc = "loop"
    /\ hashCall.i >= Len(hashCall.str)
    /\ hashCall' = [hashCall EXCEPT !.pc = "done", !.ret = HashResult(hashCall.hash)]
    /\ UNCHANGED <<store, options, requests>>

HashNext == HashLoop \/ HashReturn

HashSpec == HashInit /\ [][HashNext]_vars

\* ------------------------------------------------ the expressCache middleware
\* `"c_" + hashString(cacheUrl)`: one URL is followed, and k1 is its key.
Urls == {"/a"}
CacheKey(cacheUrl) == "k1"

\* expressCache(opts): timeOut and onTimeout are what opts gives them.
MwInit ==
    /\ NewCache
    /\ hashCall = NoCall
    /\ options \in [timeOut : Timeouts, onTimeout : Callbacks]
    /\ requests = <<>>

\* `if (cachedResponse)`: the stored values are objects, null is a miss.
Hit(cachedResponse) == cachedResponse # Null

\* What one run of the middleware function does besides cache.get: the hooks
\* it invokes, whether it calls next(), and the snapshot its res.send and
\* res.json keep (stored: how many requests had come when the response of
\* this one was stored, 0 while it is not stored).  On a hit onCacheServed is
\* invoked once, and once more by the catch branch when res.json throws after
\* the invocation in the try block (jsonThrows).
Handled(cacheUrl, depArrayValues, cachedResponse, jsonThrows) ==
    [url |-> cacheUrl, deps |-> depArrayValues,
     served |-> IF Hit(cachedResponse) THEN (IF jsonThrows THEN 2 ELSE 1) ELSE 0,
     missed |-> IF Hit(cachedResponse) THEN 0 ELSE 1,
     next |-> ~Hit(cachedResponse),
     stored |-> 0]

\* The middleware function, called with a request for cacheUrl while
\* dependsOn() returns depArrayValues.
Middleware(cacheUrl, depArrayValues, jsonThrows) ==
    /\ Len(requests) < MaxRequests
    /\ Get(CacheKey(cacheUrl), depArrayValues)
    /\ requests' = Append(requests,
                       Handled(cacheUrl, depArrayValues,
                               GetResult(CacheKey(cacheUrl), depArrayValues),
                               jsonThrows))
    /\ UNCHANGED <<hashCall, options>>

SentDepsBug(r) == requests[Len(requests)].deps

\* The depArrayValues that the res.send and res.json of request r pass to set.
SentDeps(r) == requests[r].deps

\* The handler reached through next() answers request r with res.send(body)
\* or res.json(body), which the miss branch replaced.
ResSend(r, body) ==
    /\ requests[r].next
    /\ requests[r].stored = 0
    /\ Set(CacheKey(requests[r].url), body, options.timeOut, options.onTimeout,
           SentDeps(r))
    /\ requests' = [requests EXCEPT ![r].stored = Len(requests)]
    /\ UNCHANGED <<hashCall, options>>

MwNext ==
    \/ \E u \in Urls, d \in Snapshots, j \in BOOLEAN : Middleware(u, d, j)
    \/ \E r \in DOMAIN requests, v \in Values : ResSend(r, v)
    \/ \E h \in DOMAIN timers : Fire(h) /\ UNCHANGED outside
    \/ Tick /\ UNCHANGED outside

MwSpec == MwInit /\ [][MwNext]_vars

\* ================================================================ claims
\* hist[k] describes a positive-TTL write / a write without TTL.
Written(k) == hist[k].written
TimedWrite(k) == hist[k].written /\ hist[k].due # NoExpire
UntimedWrite(k) == hist[k].written /\ hist[k].due = NoExpire
\* Since the most recent set of k: no remove(k), no get(k, d') with d' # d.
Undisturbed(k) == ~hist[k].removed /\ ~hist[k].diffGet
\* The operation performed last was op on k.
Did(op, k) == last.op = op /\ last.key = k

\* C1: after set(key, v, ttl, cb, a) with a present snapshot a, every
\* get(key, b) with b not value-equal to a returns absent and leaves no entry
\* for key.
C1_DependencyInvalidation ==
    \A k \in Keys :
        (Did("get", k) /\ Written(k) /\ hist[k].deps.isArray /\ last.deps # hist[k].deps)
            => (last.ret = Null /\ k \notin DOMAIN cache)

\* C2: after set(key, v, T, cb, d) with T > 0 at time t0, and no later set,
\* remove or differing-snapshot get on key, get(key, d) returns v while
\* now < t0 + T and absent once now >= t0 + T.
C2_TTLExpirySeenByGet ==
    \A k \in Keys :
        (Did("get", k) /\ TimedWrite(k) /\ Undisturbed(k) /\ last.deps = hist[k].deps)
            => last.ret = (IF now < hist[k].due THEN hist[k].value ELSE Null)

\* C3 as stated: once T ms have elapsed since set(key, v, T, cb, d), T > 0,
\* with no later set on key, has(key) returns false.
C3_HasFalseAfterTTL ==
    \A k \in Keys :
        (Did("has", k) /\ TimedWrite(k) /\ now >= hist[k].due) => last.ret = "false"

\* C3 amended: once T ms have elapsed since the write and no later set on key
\* happened, every get(key, .), remove(key) and firing of an expiry timer of
\* key leaves no entry for key, an absent entry stays absent, and has(key)
\* returns false from then on; until such a step has(key) may return true.
C3_HasFalseOnceEvicted ==
    [][\A k \in Keys :
          (TimedWrite(k) /\ now' >= hist[k].due /\ last'.op # "set")
              => /\ (last'.op \in {"get", "remove", "timer"} /\ last'.key = k)
                        => k \notin DOMAIN cache'
                 /\ k \notin DOMAIN cache => k \notin DOMAIN cache'
                 /\ (last'.op = "has" /\ last'.key = k /\ k \notin DOMAIN cache)
                        => last'.ret = "false"]_vars

\* C3 witness: has(key) answers false for an expired write that a get or a
\* timer has evicted.
C3_Witness ==
    \E k \in Keys :
        /\ Did("has", k) /\ TimedWrite(k) /\ Undisturbed(k)
        /\ now >= hist[k].due /\ last.ret = "false"

\* C4: after set(key, v, ttl, cb, d) with ttl absent or non-positive, as long
\* as no remove(key), no further set(key) and no get(key, d') with d' # d
\* happens, get(key, d) returns v, whatever was written to key before.
C4_NoTTLNeverExpires ==
    \A k \in Keys :
        (Did("get", k) /\ UntimedWrite(k) /\ Undisturbed(k) /\ last.deps = hist[k].deps)
            => last.ret = hist[k].value

\* C5: for set(key, v, T, cb, d) with T > 0 and a callback, when key is not
\* overwritten, removed or dependency-invalidated afterwards, then once the
\* write's timer has run, cb has been invoked exactly once, with (key, v), and
\* no entry exists for key.
C5_ExpiryNotification ==
    \A k \in Keys :
        (Written(k) /\ hist[k].timer # NoTimer /\ Undisturbed(k)
                /\ hist[k].timer \notin DOMAIN timers)
            => /\ \E c \in calls :
                     c.timer = hist[k].timer /\ c.key = k /\ c.value = hist[k].value
               /\ k \notin DOMAIN cache

\* C6: when set(key, ...) overwrites an entry that has a pending expiry
\* timer, that timer is cancelled: the overwritten write's timer never invokes
\* onExpire afterwards (the timer invokes onExpire exactly when it deletes the
\* entry it finds, so it never deletes the new entry either).
C6_OverwriteCancelsTimer ==
    \A k \in Keys :
        (Written(k) /\ hist[k].stale # NoTimer)
            => ~\E c \in calls : c.timer = hist[k].stale

\* C7: after remove(key), until the next set(key): no entry and no
\* DependencyTable record exist for key, has(key) returns false and
\* get(key, s) returns absent for every snapshot s.
C7_RemoveDeletesEntryAndSnapshot ==
    \A k \in Keys :
        hist[k].removed
            => /\ k \notin DOMAIN cache
               /\ k \notin DOMAIN dependencies
               /\ HasResult(k) = "false"
               /\ \A s \in Snapshots : GetResult(k, s) = Null
               /\ Did("get", k) => last.ret = Null
               /\ Did("has", k) => last.ret = "false"

\* C7 witness: a get with the written snapshot after the remove of an entry
\* whose TTL has not elapsed.
C7_Witness ==
    \E k \in Keys :
        /\ Did("get", k) /\ hist[k].removed /\ TimedWrite(k)
        /\ now < hist[k].due /\ last.deps = hist[k].deps /\ ~hist[k].diffGet

\* C8: right after set(key, v, ttl, cb, d), get(key, d) returns v.
C8_WriteThenRead ==
    \A k \in Keys :
        Did("set", k) => GetResult(k, last.deps) = hist[k].value

\* C8 witness: a set with a TTL and a present snapshot that overwrites an
\* entry whose expiry timer is pending.
C8_Witness ==
    \E k \in Keys :
        /\ Did("set", k) /\ hist[k].stale # NoTimer
        /\ last.deps.isArray /\ TimedWrite(k)

\* C9: a get(key, d) that returns a value changes neither the entries nor the
\* DependencyTable nor the pending timers, and the same get repeated at once
\* returns the same value.
C9_ReadsAreIdempotent ==
    [][\A k \in Keys, d \in Snapshots :
          (last'.op = "get" /\ last'.key = k /\ last'.deps = d /\ last'.ret # Null)
              => /\ UNCHANGED <<cache, dependencies, timers, calls>>
                 /\ GetResult(k, d)' = last'.ret]_vars

\* C9 witness: a get returned a value with a snapshot that is not the written
\* one (it has the same JSON text).
C9_Witness ==
    \E k \in Keys :
        /\ Did("get", k) /\ last.ret # Null
        /\ last.deps # hist[k].deps /\ hist[k].deps.isArray

\* C10: has(key) returns true exactly when an entry is stored for key, expired
\* or not, and changes nothing in the store.
C10_HasIsRawProbe ==
    [][last'.op = "has"
          => /\ last'.ret = (IF last'.key \in DOMAIN cache THEN "true" ELSE "false")
             /\ UNCHANGED <<cache, dependencies, timers, calls>>]_vars

\* C10 witness: has(key) returned true for an entry whose expiry time passed.
C10_Witness ==
    \E k \in Keys :
        /\ Did("has", k) /\ last.ret = "true"
        /\ cache[k].expireTime # NoExpire /\ cache[k].expireTime <= now

\* C11: for a key that was never written, get(key, s) returns absent for
\* every snapshot s, has(key) returns false, and no entry and no
\* DependencyTable record exist for key (a get creates neither).
C11_NeverWritten ==
    \A k \in Keys :
        ~Written(k)
            => /\ k \notin DOMAIN cache
               /\ k \notin DOMAIN dependencies
               /\ HasResult(k) = "false"
               /\ \A s \in Snapshots : GetResult(k, s) = Null
               /\ Did("get", k) => last.ret = Null
               /\ Did("has", k) => last.ret = "false"

\* C11 witness: a get with an array snapshot on a key never written.
C11_Witness ==
    \E k \in Keys : Did("get", k) /\ ~Written(k) /\ last.deps.isArray

\* The rolling hash H of the claim: H(<<>>) = 0 and H(s . c) = H(s) * 31 + c
\* folded to a signed 32-bit integer.
RECURSIVE RollingHash(_)
RollingHash(s) ==
    IF s = <<>> THEN Zero
    ELSE ToInt32(Plus(Times(31, RollingHash(SubSeq(s, 1, Len(s) - 1))),
                      Num(0, s[Len(s)])))

\* C12: hashString(s) = 2^31 + H(s) for every string s, the empty one
\* included, where H is the rolling hash H * 31 + charCode folded to a signed
\* 32-bit integer after each character (the local hash is H of the characters
\* read so far); the result lies in 0 .. 2^32 - 1 and depends on s only.
C12_HashIsRollingHashPlus2To31 ==
    /\ hashCall.pc = "loop"
           => hashCall.hash = RollingHash(SubSeq(hashCall.str, 1, hashCall.i))
    /\ hashCall.pc = "done"
           => /\ hashCall.ret = Plus(Num(Limb \div 2, 0), RollingHash(hashCall.str))
              /\ hashCall.ret.hi \in 0..(Limb - 1)
              /\ hashCall.ret.lo \in 0..(Limb - 1)

\* C12 witness: hashString has returned for a string whose rolling hash
\* wrapped around to a negative 32-bit integer.
C12_Witness ==
    /\ hashCall.pc = "done"
    /\ RollingHash(hashCall.str).hi < 0

\* C13: for every request the middleware invokes exactly one of onCacheServed
\* and onCacheMiss (the other one is not invoked); it calls next() if and only if its cache.get, made with the
\* key of the URL and the snapshot dependsOn returned for this request,
\* returned absent; cache.set and onCacheStored happen only for a request on
\* the miss path, and that set is given the snapshot captured when the request
\* came in.
C13_HitMissProtocol ==
    [][/\ \A r \in DOMAIN requests' \ DOMAIN requests :
              /\ last'.op = "get"
              /\ last'.key = CacheKey(requests'[r].url)
              /\ last'.deps = requests'[r].deps
              /\ (requests'[r].served > 0) # (requests'[r].missed > 0)
              /\ requests'[r].served > 0 <=> last'.ret # Null
              /\ requests'[r].next <=> last'.ret = Null
              /\ requests'[r].stored = 0
       /\ \A r \in DOMAIN requests :
              /\ requests'[r].served = requests[r].served
              /\ requests'[r].missed = requests[r].missed
              /\ requests'[r].next = requests[r].next
              /\ requests'[r].stored # requests[r].stored
                     => (last'.op = "set" /\ requests[r].missed = 1)
       /\ last'.op = "set"
              => \E r \in DOMAIN requests :
                     /\ requests[r].missed = 1 /\ requests[r].served = 0
                     /\ requests[r].stored = 0 /\ requests'[r].stored # 0
                     /\ last'.key = CacheKey(requests[r].url)
                     /\ last'.deps = requests[r].deps
                     /\ cache'[last'.key].dependencies = requests[r].deps
                     /\ dependencies'[last'.key] = requests[r].deps]_vars

\* C13 witness: a request missed, a second request with another snapshot came
\* in before the response of the first was stored, and a third request was
\* served from the cache.
C13_Witness ==
    \E r1, r2, r3 \in DOMAIN requests :
        /\ r1 < r2 /\ requests[r1].stored >= r2
        /\ requests[r2].deps # requests[r1].deps
        /\ requests[r3].served > 0

\* C14: after remove(key) of an entry with a pending expiry timer, the firing
\* of that timer invokes no onExpire and deletes or changes no entry, also
\* when key is written again before it fires.
C14_RemoveWithPendingTimerIsSafe ==
    [][\A k \in Keys :
          (/\ RemovedTimer(k) \in DOMAIN timers
           /\ RemovedTimer(k) \notin DOMAIN timers')
              => UNCHANGED <<cache, calls>>]_vars

\* C15: when an expiry timer fires and no entry exists for its key, onExpire
\* is not invoked and the entries and the DependencyTable are left unchanged.
C15_TimerOnDeletedEntryIsNoOp ==
    [][\A k \in Keys :
          (last'.op = "timer" /\ last'.key = k /\ k \notin DOMAIN cache)
              => UNCHANGED <<cache, dependencies, calls>>]_vars

\* C15 witness: the timer of a removed entry has fired and no callback was
\* ever invoked.
C15_Witness ==
    \E k \in Keys :
        /\ Did("timer", k) /\ hist[k].removed /\ TimedWrite(k)
        /\ hist[k].timer # NoTimer /\ hist[k].timer \notin DOMAIN timers
        /\ calls = {}

\* C16: a get(key, d') made while a snapshot is recorded for key that is not
\* value-equal to d' records d' as the snapshot of key (with or without an
\* entry), leaves no entry and no pending timer of the deleted entry, and the
\* same get repeated at once detects no change.
C16_DriftIsRecorded ==
    [][\A k \in Keys, d \in Snapshots :
          (/\ last'.op = "get" /\ last'.key = k /\ last'.deps = d
           /\ k \in DOMAIN dependencies /\ dependencies[k].isArray
           /\ dependencies[k] # d)
              => /\ dependencies'[k] = d
                 /\ k \notin DOMAIN cache'
                 /\ (k \in DOMAIN cache => cache[k].timer \notin DOMAIN timers')
                 /\ ~DepsChanged(k, d)']_vars

\* C17: once this.dependencies holds a record for a key, it holds one until
\* remove(key); the firing of an expiry timer and a get that detects no change
\* (a lazy TTL deletion included) leave the DependencyTable unchanged.
C17_DependencyRecordOutlivesEntry ==
    [][\A k \in Keys :
          /\ (k \in DOMAIN dependencies /\ ~(last'.op = "remove" /\ last'.key = k))
                 => k \in DOMAIN dependencies'
          /\ last'.op = "timer" => dependencies' = dependencies
          /\ (last'.op = "get" /\ last'.key = k /\ ~DepsChanged(k, last'.deps))
                 => dependencies' = dependencies]_vars

\* C17 witness: the entry is gone (evicted by a timer or a lazy deletion) and
\* the snapshot that was written is still recorded.
C17_Witness ==
    \E k \in Keys :
        /\ TimedWrite(k) /\ Undisturbed(k) /\ hist[k].deps.isArray
        /\ k \notin DOMAIN cache /\ last.op \in {"get", "timer"}
        /\ k \in DOMAIN dependencies /\ dependencies[k] = hist[k].deps

\* C18: if get(key, d) returns a value v, then v is the value of the most
\* recent set on key, no remove(key) happened since, that set's TTL (if any)
\* has not elapsed, and, when that set supplied a snapshot, d is value-equal
\* to it and no get with a different snapshot happened since.
C18_NoStaleData ==
    \A k \in Keys :
        (Did("get", k) /\ last.ret # Null)
            => /\ Written(k) /\ last.ret = hist[k].value
               /\ ~hist[k].removed
               /\ (hist[k].due = NoExpire \/ now < hist[k].due)
               /\ hist[k].deps.isArray
                      => (last.deps = hist[k].deps /\ ~hist[k].diffGet)

\* C19: for every key that has an entry, the snapshot stored on the entry is
\* the snapshot recorded for the key in this.dependencies.
C19_SnapshotConsistency ==
    \A k \in DOMAIN cache :
        k \in DOMAIN dependencies /\ cache[k].dependencies = dependencies[k]

\* C19 witness: an entry is kept after a get whose snapshot differs from the
\* stored one (with the same JSON text).
C19_Witness ==
    \E k \in Keys :
        /\ Did("get", k) /\ k \in DOMAIN cache
        /\ cache[k].dependencies.isArray /\ last.deps # cache[k].dependencies

\* C20: every pending expiry timer is the timer of the current entry of its
\* key (so a key without an entry has no pending timer).
C20_NoLeakedTimers ==
    \A h \in DOMAIN timers :
        /\ timers[h].key \in DOMAIN cache
        /\ cache[timers[h].key].timer = h

====
